---- MODULE Spec2Model ----
(***************************************************************************)
(* Profile-based language identification: text normalisation, n-gram and   *)
(* subword profiles, the out-of-place rank distance, and the simple and     *)
(* hybrid identify operations of identifier/core.py, identifier/advanced.py *)
(* and identifier/utils.py.                                                 *)
(*                                                                          *)
(* A text is a sequence of one-character strings, an n-gram is a sequence   *)
(* of n characters, a profile is a sequence of n-grams (or of token ids).   *)
(* A dict is a sequence of records in insertion order.                      *)
(***************************************************************************)
EXTENDS Integers, Sequences, FiniteSets, TLC

VARIABLES
    model,              \* which identifier was constructed: "simple" or "advanced"
    n_gram_size,        \* self.n_gram_size
    profile_size,       \* self.profile_size
    alpha,              \* self.alpha of the hybrid identifier, in units of 1/AlphaDen
    profiles,           \* LanguageIdentifier.profiles: dict lang -> n-gram profile
    char_profiles,      \* HybridIdentifier.char_profiles: dict lang -> n-gram profile
    subword_profiles,   \* HybridIdentifier.subword_profiles: dict lang -> token-id profile
    call,               \* the operation called and its arguments
    result              \* what the call returned

vars == <<model, n_gram_size, profile_size, alpha, profiles, char_profiles,
          subword_profiles, call, result>>

config == <<model, n_gram_size, profile_size, alpha, profiles, char_profiles,
            subword_profiles>>

----------------------------------------------------------------------------
(* Bounds of the model.                                                     *)

MaxNormLen == 5     \* longest raw text given to normalize_text alone
MaxGramText == 5    \* longest text given to generate_char_ngram_profile alone
MaxGramN == 3       \* largest n given to generate_char_ngram_profile alone
MaxGramSize == 3    \* largest profile_size given to generate_char_ngram_profile alone
MaxDistLen == 3     \* longest profile given to _calculate_distance alone
MaxDistSize == 3    \* largest profile_size when _calculate_distance is called alone

----------------------------------------------------------------------------
(* Generic helpers: Python built-ins the code relies on.                    *)

Min(a, b) == IF a <= b THEN a ELSE b
Max(a, b) == IF a >= b THEN a ELSE b
Abs(x) == IF x < 0 THEN -x ELSE x

SeqsUpTo(S, n) == UNION {[1..k -> S] : k \in 0..n}

Range(s) == {s[i] : i \in 1..Len(s)}

NoDuplicates(s) == \A i, j \in 1..Len(s) : s[i] = s[j] => i = j

\* seq[:k] of Python: the first k elements, and for negative k all but the last -k.
Slice(s, k) ==
    IF k >= 0 THEN SubSeq(s, 1, Min(k, Len(s)))
              ELSE SubSeq(s, 1, Max(0, Len(s) + k))

\* The position after which x goes in the sorted sequence s: behind every
\* element whose key is not greater (Python's sort is stable).
RECURSIVE InsertSorted(_, _)
InsertSorted(x, s) ==
    IF s = <<>> THEN <<x>>
    ELSE IF s[1].k <= x.k THEN <<s[1]>> \o InsertSorted(x, Tail(s))
    ELSE <<x>> \o s

\* sorted(items, key=...) on a sequence of records [k |-> key, v |-> item].
RECURSIVE SortedByKey(_)
SortedByKey(s) ==
    IF s = <<>> THEN <<>>
    ELSE InsertSorted(s[Len(s)], SortedByKey(SubSeq(s, 1, Len(s) - 1)))

----------------------------------------------------------------------------
(* identifier/utils.py: normalize_text                                      *)

LowerLetters == {"a", "b"}
UpperLetters == {"A", "B"}
Whitespace == {" ", "\t", "\n"}
OtherChars == {"1", "!"}

Chars == LowerLetters \cup UpperLetters \cup Whitespace \cup OtherChars

\* str.lower() on one character
LowerChar(c) == IF c = "A" THEN "a" ELSE IF c = "B" THEN "b" ELSE c

\* text.lower()
Lower(text) == [i \in 1..Len(text) |-> LowerChar(text[i])]

KeepChar(c) == c \in LowerLetters \cup Whitespace

\* re.sub(r'[^a-z\s]', '', text)
RemoveNonLetters(text) == SelectSeq(text, KeepChar)

RECURSIVE DropLeadingSpace(_)
DropLeadingSpace(text) ==
    IF text # <<>> /\ text[1] \in Whitespace THEN DropLeadingSpace(Tail(text))
    ELSE text

\* re.sub(r'\s+', ' ', text)
RECURSIVE CollapseSpaces(_)
CollapseSpaces(text) ==
    IF text = <<>> THEN <<>>
    ELSE IF text[1] \in Whitespace
         THEN <<" ">> \o CollapseSpaces(DropLeadingSpace(text))
         ELSE <<text[1]>> \o CollapseSpaces(Tail(text))

RECURSIVE DropTrailingSpace(_)
DropTrailingSpace(text) ==
    IF text # <<>> /\ text[Len(text)] \in Whitespace
    THEN DropTrailingSpace(SubSeq(text, 1, Len(text) - 1))
    ELSE text

\* str.strip()
Strip(text) == DropTrailingSpace(DropLeadingSpace(text))

\* A normaliser that removes the other characters only after it has
\* collapsed and stripped the whitespace.
normalize_text_remove_last(text) ==
    RemoveNonLetters(Strip(CollapseSpaces(Lower(text))))

\* A normaliser whose second substitution matches \s instead of \s+: every
\* whitespace character becomes a space of its own.
normalize_text_no_collapse(text) ==
    Strip([i \in 1..Len(RemoveNonLetters(Lower(text))) |->
              IF RemoveNonLetters(Lower(text))[i] \in Whitespace
              THEN " "
              ELSE RemoveNonLetters(Lower(text))[i]])

normalize_text(text) ==
    Strip(CollapseSpaces(RemoveNonLetters(Lower(text))))

----------------------------------------------------------------------------
(* identifier/utils.py: Counter, most_common and the two profile builders.  *)

\* Counter.update: one more occurrence of item; a new key goes to the end.
CounterAdd(counter, item) ==
    IF \E i \in 1..Len(counter) : counter[i].item = item
    THEN [i \in 1..Len(counter) |->
            IF counter[i].item = item
            THEN [item |-> item, count |-> counter[i].count + 1]
            ELSE counter[i]]
    ELSE Append(counter, [item |-> item, count |-> 1])

\* Counter(items): the items with their counts, in order of first occurrence.
RECURSIVE Counter(_)
Counter(items) ==
    IF items = <<>> THEN <<>>
    ELSE CounterAdd(Counter(SubSeq(items, 1, Len(items) - 1)), items[Len(items)])

\* A most_common that keeps the order of first occurrence and ignores the counts.
most_common_unsorted(counter, n) ==
    IF n <= 0 THEN <<>> ELSE Slice(counter, n)

\* Counter.most_common(n): the n entries of largest count, largest first,
\* equal counts in order of first occurrence.
most_common(counter, n) ==
    IF n <= 0 THEN <<>>
    ELSE LET keyed == [i \in 1..Len(counter) |->
                          [k |-> -counter[i].count, v |-> counter[i]]]
             sorted == SortedByKey(keyed)
         IN  Slice([i \in 1..Len(sorted) |-> sorted[i].v], n)

\* text[i:i+n] for i in range(len(text) - n + 1)
NGrams(text, n) == [i \in 1..(Len(text) - n + 1) |-> SubSeq(text, i, i + n - 1)]

\* A profiler that also rejects a text of exactly n characters.
generate_char_ngram_profile_strict(text, n, size) ==
    IF Len(text) <= n THEN <<>>
    ELSE LET common == most_common(Counter(NGrams(text, n)), size)
         IN  [i \in 1..Len(common) |-> common[i].item]

generate_char_ngram_profile(text, n, size) ==
    IF Len(text) < n THEN <<>>
    ELSE LET common == most_common(Counter(NGrams(text, n)), size)
         IN  [i \in 1..Len(common) |-> common[i].item]

\* token_ids stands for tokenizer.encode(text, add_special_tokens=False).
generate_subword_profile(token_ids, size) ==
    IF token_ids = <<>> THEN <<>>
    ELSE LET common == most_common(Counter(token_ids), size)
         IN  [i \in 1..Len(common) |-> common[i].item]

----------------------------------------------------------------------------
(* identifier/core.py: the out-of-place distance.                           *)

\* {ngram: i for i, ngram in enumerate(profile)}: the keys of the dict
InRanks(profile, ngram) == \E i \in 1..Len(profile) : profile[i] = ngram

\* ... and the rank it gives a key: the last position holding it, 0-based
RankOf(profile, ngram) ==
    (CHOOSE i \in 1..Len(profile) :
        /\ profile[i] = ngram
        /\ \A j \in 1..Len(profile) : profile[j] = ngram => j <= i) - 1

\* A distance that compares a 1-based text position with the 0-based rank.
DistanceTermOneBased(i, ngram, lang_profile) ==
    IF InRanks(lang_profile, ngram)
    THEN Abs((i + 1) - RankOf(lang_profile, ngram))
    ELSE profile_size

\* What the n-gram at 0-based position i of the text profile adds.
DistanceTerm(i, ngram, lang_profile) ==
    IF InRanks(lang_profile, ngram)
    THEN Abs(i - RankOf(lang_profile, ngram))
    ELSE profile_size

RECURSIVE SumTerms(_, _, _)
SumTerms(text_profile, lang_profile, upto) ==
    IF upto = 0 THEN 0
    ELSE SumTerms(text_profile, lang_profile, upto - 1)
         + DistanceTerm(upto - 1, text_profile[upto], lang_profile)

\* A distance that also charges the penalty for every symbol of the
\* reference profile that the text profile lacks, which makes it symmetric.
_calculate_distance_symmetric(text_profile, lang_profile) ==
    SumTerms(text_profile, lang_profile, Len(text_profile))
    + profile_size * Cardinality({i \in 1..Len(lang_profile) :
                                     ~InRanks(text_profile, lang_profile[i])})

_calculate_distance(text_profile, lang_profile) ==
    SumTerms(text_profile, lang_profile, Len(text_profile))

----------------------------------------------------------------------------
(* Dicts lang -> profile, as sequences of [lang, profile] in insertion      *)
(* order.                                                                   *)

HasKey(dict, lang) == \E i \in 1..Len(dict) : dict[i].lang = lang

Lookup(dict, lang) == dict[CHOOSE i \in 1..Len(dict) : dict[i].lang = lang].profile

\* sorted(scores.items(), key=lambda item: item[1]) on a sequence of
\* [lang, score] in the dict's order.
SortedScores(scores) ==
    LET keyed == [i \in 1..Len(scores) |-> [k |-> scores[i].score, v |-> scores[i]]]
        sorted == SortedByKey(keyed)
    IN  [i \in 1..Len(sorted) |-> sorted[i].v]

TopFeatureCount == 5

\* Top features that are cut to 5 without being sorted by rank.
TopFeaturesUnsorted(text_profile, lang_profile) ==
    Slice(SelectSeq(text_profile, LAMBDA g : InRanks(lang_profile, g)),
          TopFeatureCount)

\* sorted([g for g in text_profile if g in ranks], key=ranks.get)[:5]
TopFeatures(text_profile, lang_profile) ==
    LET shared == SelectSeq(text_profile, LAMBDA g : InRanks(lang_profile, g))
        keyed == [i \in 1..Len(shared) |->
                    [k |-> RankOf(lang_profile, shared[i]), v |-> shared[i]]]
        sorted == SortedByKey(keyed)
    IN  Slice([i \in 1..Len(sorted) |-> sorted[i].v], TopFeatureCount)

----------------------------------------------------------------------------
(* identifier/core.py: LanguageIdentifier.identify                          *)

\* The scores dict: one entry per language of the reference set refs, in
\* the order of loading.
Scores(refs, text_profile) ==
    [i \in 1..Len(refs) |->
        [lang |-> refs[i].lang,
         score |-> _calculate_distance(text_profile, refs[i].profile)]]

\* An identify that takes the last entry of the sorted scores.
BestMatchLast(sorted_scores) == sorted_scores[Len(sorted_scores)].lang

\* best_match_lang, _ = sorted_scores[0]
BestMatch(sorted_scores) == sorted_scores[1].lang

\* A distribution that is not cut to top_n.
DistributionUncut(sorted_scores, top_n) == sorted_scores

\* [{"lang": lang, "score": score} for lang, score in sorted_scores[:top_n]]
Distribution(sorted_scores, top_n) == Slice(sorted_scores, top_n)

\* The text profile identify builds for a text.
TextProfile(text) ==
    generate_char_ngram_profile(normalize_text(text), n_gram_size, profile_size)

\* An identify that does not check the text profile before it scores.
IdentifyAgainstUnchecked(refs, text, top_n) ==
    IF refs = <<>>
    THEN [error |-> "Identifier has no profiles loaded."]
    ELSE
    LET text_profile == TextProfile(text)
        sorted_scores == SortedScores(Scores(refs, text_profile))
        best_match_lang == BestMatch(sorted_scores)
    IN  [prediction |-> best_match_lang,
         distribution |-> Distribution(sorted_scores, top_n),
         top_features |->
             TopFeatures(text_profile, Lookup(refs, best_match_lang))]

\* identify, for an identifier whose self.profiles is refs.
IdentifyAgainst(refs, text, top_n) ==
    IF refs = <<>>
    THEN [error |-> "Identifier has no profiles loaded."]
    ELSE
    LET text_profile == TextProfile(text)
    IN  IF text_profile = <<>>
        THEN [error |-> "Text too short or lacks valid characters to analyze."]
        ELSE
        LET sorted_scores == SortedScores(Scores(refs, text_profile))
            best_match_lang == BestMatch(sorted_scores)
        IN  [prediction |-> best_match_lang,
             distribution |-> Distribution(sorted_scores, top_n),
             top_features |->
                 TopFeatures(text_profile, Lookup(refs, best_match_lang))]

identify(text, top_n) == IdentifyAgainst(profiles, text, top_n)

----------------------------------------------------------------------------
(* identifier/advanced.py: HybridIdentifier.identify                        *)

\* alpha is held as a number of AlphaDen-ths, a blended score as a number of
\* AlphaDen-ths too, so that the arithmetic is exact. self_alpha is the
\* alpha of the instance whose identify is called.
AlphaDen == 4

\* A blend with the two weights exchanged.
BlendSwapped(self_alpha, char_dist, subword_dist) ==
    ((AlphaDen - self_alpha) * char_dist) + (self_alpha * subword_dist)

\* (self.alpha * char_dist) + ((1 - self.alpha) * subword_dist), times AlphaDen
Blend(self_alpha, char_dist, subword_dist) ==
    (self_alpha * char_dist) + ((AlphaDen - self_alpha) * subword_dist)

\* f"{score:.2f}": the score in hundredths.
FormatScore(score) == (score * 100) \div AlphaDen

\* The entries of char_profiles whose language subword_profiles has too.
Scorable == SelectSeq(char_profiles, LAMBDA e : e.lang \in DOMAIN subword_profiles)

\* Final scores that take the empty subword profile for a language that
\* has none, instead of skipping the language.
FinalScoresDefaulted(self_alpha, text_char_profile, text_subword_profile) ==
    [i \in 1..Len(char_profiles) |->
        [lang |-> char_profiles[i].lang,
         score |-> Blend(self_alpha,
             _calculate_distance(text_char_profile, char_profiles[i].profile),
             _calculate_distance(text_subword_profile,
                 IF char_profiles[i].lang \in DOMAIN subword_profiles
                 THEN subword_profiles[char_profiles[i].lang]
                 ELSE <<>>))]]

\* final_scores: one blended score per scorable language, in the order of
\* char_profiles.
FinalScores(self_alpha, text_char_profile, text_subword_profile) ==
    LET both == Scorable
    IN  [i \in 1..Len(both) |->
            [lang |-> both[i].lang,
             score |-> Blend(self_alpha,
                 _calculate_distance(text_char_profile, both[i].profile),
                 _calculate_distance(text_subword_profile,
                                     subword_profiles[both[i].lang]))]]

\* A hybrid identify that gives up only when both text profiles are empty.
hybrid_identify_both_empty(self_alpha, text, token_ids, top_n) ==
    LET text_char_profile == TextProfile(text)
        text_subword_profile == generate_subword_profile(token_ids, profile_size)
    IN  IF text_char_profile = <<>> /\ text_subword_profile = <<>>
        THEN [error |-> "Text too short to generate a reliable profile."]
        ELSE
        LET final_scores ==
                FinalScores(self_alpha, text_char_profile, text_subword_profile)
        IN  IF final_scores = <<>>
            THEN [error |-> "Could not score text against any language. Check profiles."]
            ELSE
            LET sorted_scores == SortedScores(final_scores)
                best_match_code == BestMatch(sorted_scores)
                cut == Distribution(sorted_scores, top_n)
            IN  [prediction |-> best_match_code,
                 distribution |->
                     [i \in 1..Len(cut) |->
                         [lang |-> cut[i].lang, score |-> FormatScore(cut[i].score)]],
                 top_features |->
                     TopFeatures(text_char_profile,
                                 Lookup(char_profiles, best_match_code))]

\* token_ids is what the tokenizer returns for the text.
hybrid_identify(self_alpha, text, token_ids, top_n) ==
    LET text_char_profile == TextProfile(text)
        text_subword_profile == generate_subword_profile(token_ids, profile_size)
    IN  IF text_char_profile = <<>> \/ text_subword_profile = <<>>
        THEN [error |-> "Text too short to generate a reliable profile."]
        ELSE
        LET final_scores ==
                FinalScores(self_alpha, text_char_profile, text_subword_profile)
        IN  IF final_scores = <<>>
            THEN [error |-> "Could not score text against any language. Check profiles."]
            ELSE
            LET sorted_scores == SortedScores(final_scores)
                best_match_code == BestMatch(sorted_scores)
                cut == Distribution(sorted_scores, top_n)
            IN  [prediction |-> best_match_code,
                 distribution |->
                     [i \in 1..Len(cut) |->
                         [lang |-> cut[i].lang, score |-> FormatScore(cut[i].score)]],
                 top_features |->
                     TopFeatures(text_char_profile,
                                 Lookup(char_profiles, best_match_code))]

----------------------------------------------------------------------------
(* The state before any call, and the unused parts of the state.            *)

NoResult == [kind |-> "none"]

NoCall == [op |-> "none"]

\* No identifier is constructed when a function of utils.py is called alone.
NoModel ==
    /\ model = "none"
    /\ n_gram_size = 0
    /\ profile_size = 0
    /\ alpha = 0
    /\ profiles = <<>>
    /\ char_profiles = <<>>
    /\ subword_profiles = <<>>

----------------------------------------------------------------------------
(* normalize_text called on its own, and again on its own output.           *)

InitNorm ==
    /\ NoModel
    /\ call \in {[op |-> "normalize_text", text |-> t] : t \in SeqsUpTo(Chars, MaxNormLen)}
    /\ result = NoResult

Normalize ==
    /\ call.op = "normalize_text"
    /\ result.kind = "none"
    /\ result' = [kind |-> "text", value |-> normalize_text(call.text)]
    /\ UNCHANGED <<config, call>>

NormalizeAgain ==
    /\ call.op = "normalize_text"
    /\ result.kind = "text"
    /\ result' = [kind |-> "text2", first |-> result.value,
                  value |-> normalize_text(result.value)]
    /\ UNCHANGED <<config, call>>

NextNorm == Normalize \/ NormalizeAgain

SpecNorm == InitNorm /\ [][NextNorm]_vars

----------------------------------------------------------------------------
(* generate_char_ngram_profile called on its own.                           *)

GramChars == {"a", "b", " "}

InitProfile ==
    /\ NoModel
    /\ call \in {[op |-> "generate_char_ngram_profile", text |-> t, n |-> n, size |-> k] :
                    t \in SeqsUpTo(GramChars, MaxGramText),
                    n \in 1..MaxGramN, k \in 1..MaxGramSize}
    /\ result = NoResult

Generate ==
    /\ call.op = "generate_char_ngram_profile"
    /\ result.kind = "none"
    /\ result' = [kind |-> "profile",
                  value |-> generate_char_ngram_profile(call.text, call.n, call.size)]
    /\ UNCHANGED <<config, call>>

NextProfile == Generate

SpecProfile == InitProfile /\ [][NextProfile]_vars

----------------------------------------------------------------------------
(* _calculate_distance called on its own: the text profile has no repeated  *)
(* symbol and at most profile_size symbols (generate_char_ngram_profile     *)
(* made it), the reference profile has no repeated symbol and any length    *)
(* (it was loaded from a file).                                             *)

DistSymbols == {<<"a">>, <<"b">>, <<"a", "b">>, <<"b", "a">>}

DistProfiles == {p \in SeqsUpTo(DistSymbols, MaxDistLen) : NoDuplicates(p)}

InitDist ==
    /\ model = "simple"
    /\ n_gram_size = 0
    /\ alpha = 0
    /\ profiles = <<>>
    /\ char_profiles = <<>>
    /\ subword_profiles = <<>>
    /\ profile_size \in 1..MaxDistSize
    /\ call \in {[op |-> "_calculate_distance", text_profile |-> t, lang_profile |-> l] :
                    t \in DistProfiles, l \in DistProfiles}
    /\ Len(call.text_profile) <= profile_size
    /\ result = NoResult

CalculateDistance ==
    /\ call.op = "_calculate_distance"
    /\ result.kind = "none"
    /\ result' = [kind |-> "distance",
                  value |-> _calculate_distance(call.text_profile, call.lang_profile)]
    /\ UNCHANGED <<config, call>>

\* The same text profile against the reference profile with one more
\* symbol at its end, a symbol the text profile does not hold.
CalculateDistanceAppended ==
    /\ call.op = "_calculate_distance"
    /\ result.kind = "distance"
    /\ \E s \in DistSymbols \ Range(call.text_profile) :
        result' = [kind |-> "distance2", first |-> result.value, symbol |-> s,
                   value |-> _calculate_distance(call.text_profile,
                                                 Append(call.lang_profile, s))]
    /\ UNCHANGED <<config, call>>

NextDist == CalculateDistance \/ CalculateDistanceAppended

SpecDist == InitDist /\ [][NextDist]_vars

----------------------------------------------------------------------------
(* The identifiers at work: one of the two is constructed from a profile    *)
(* directory (main.py, api.py), then identify is called any number of times. *)

MaxTextLen == 2     \* longest text given to identify
MaxTopN == 2        \* largest top_n given to identify
MaxTokens == 1      \* most token ids the tokenizer returns

Langs == {"de", "en", "fr"}
HybridLangs == {"de", "en"}
NGramSizes == {1, 2}
ProfileSizes == {2}
Alphas == {0, AlphaDen \div 2, AlphaDen}
TextChars == {"a", "B", "1"}
TokenIds == {1, 2}

Texts == SeqsUpTo(TextChars, MaxTextLen)
TopNs == (-1)..MaxTopN
TokenSeqs == SeqsUpTo(TokenIds, MaxTokens)

\* The n-grams the reference profiles are made of.
RefGrams(n) == IF n = 1 THEN {<<"a">>, <<"b">>} ELSE {<<"a", "b">>, <<"b", "a">>}

\* Reference profiles: what build_profiles.py writes for a corpus, non-empty
\* and without repeated symbols.
CharRefProfiles(n) ==
    {p \in SeqsUpTo(RefGrams(n), Cardinality(RefGrams(n))) :
        p # <<>> /\ NoDuplicates(p)}

\* The reference profiles of the hybrid identifier's directory.
HybridCharRefProfiles == {<< <<"a">> >>, << <<"b">>, <<"a">> >>}
SubwordRefProfiles == {<<1>>, <<2, 1>>}

\* The dicts the *_chars.json files of a directory load into, for the
\* languages langs, in any order of the files.
CharRefSets(pool, langs) ==
    {d \in SeqsUpTo([lang : langs, profile : pool], Cardinality(langs)) :
        \A i, j \in 1..Len(d) : d[i].lang = d[j].lang => i = j}

\* The dict the *_subwords.json files load into; its order is never used.
SubwordRefSets(langs) == UNION {[ls -> SubwordRefProfiles] : ls \in SUBSET langs}

\* LanguageIdentifier.__init__, with profile_size left at its default, the
\* size build_profiles.py cuts the reference profiles to.
InitSimple ==
    /\ model = "simple"
    /\ n_gram_size \in NGramSizes
    /\ profile_size \in ProfileSizes
    /\ alpha = 0
    /\ profiles \in CharRefSets(CharRefProfiles(n_gram_size), Langs)
    /\ char_profiles = <<>>
    /\ subword_profiles = <<>>

\* HybridIdentifier.__init__, with n_gram_size and profile_size left at
\* their defaults as main.py and api.py leave them.
InitHybrid ==
    /\ model = "advanced"
    /\ n_gram_size = 1
    /\ profile_size \in ProfileSizes
    /\ alpha \in Alphas
    /\ profiles = <<>>
    /\ char_profiles \in CharRefSets(HybridCharRefProfiles, HybridLangs)
    /\ subword_profiles \in SubwordRefSets(HybridLangs)

Init ==
    /\ InitSimple \/ InitHybrid
    /\ call = NoCall
    /\ result = NoResult

Identify ==
    /\ model = "simple"
    /\ call.op = "none"
    /\ \E text \in Texts, top_n \in TopNs :
        /\ call' = [op |-> "identify", text |-> text, top_n |-> top_n]
        /\ result' = [kind |-> "result", value |-> identify(text, top_n)]
    /\ UNCHANGED config

HybridIdentify ==
    /\ model = "advanced"
    /\ call.op = "none"
    /\ \E text \in Texts, token_ids \in TokenSeqs, top_n \in TopNs :
        /\ call' = [op |-> "identify", text |-> text, token_ids |-> token_ids,
                    top_n |-> top_n]
        /\ result' = [kind |-> "result",
                      value |-> hybrid_identify(alpha, text, token_ids, top_n)]
    /\ UNCHANGED config

\* The caller has the result; the identifier is ready for the next call.
Return ==
    /\ call.op = "identify"
    /\ call' = NoCall
    /\ result' = NoResult
    /\ UNCHANGED config

Next == Identify \/ HybridIdentify \/ Return

Spec == Init /\ [][Next]_vars

----------------------------------------------------------------------------
(* The identifiers given longer texts: 2-gram profiles of up to             *)
(* FeatureProfileSize symbols, enough for a text to share more than         *)
(* TopFeatureCount symbols with a reference profile.                        *)

MaxFeatureText == 7     \* longest text given to identify here

FeatureProfileSizes == {6}
FeatureChars == {"a", "b", " "}
FeatureTexts == SeqsUpTo(FeatureChars, MaxFeatureText)
FeatureTokenSeqs == {<<1>>}

\* Two reference profiles of six 2-grams each.
FeatureRefProfiles ==
    { << <<"a", "b">>, <<"b", "a">>, <<"a", "a">>, <<"b", "b">>, <<"a", " ">>, <<" ", "a">> >>,
      << <<" ", "b">>, <<"b", "b">>, <<"a", " ">>, <<"a", "a">>, <<"b", "a">>, <<"a", "b">> >> }

\* The subword profiles of the directory: one for each language, all alike,
\* so that the character distance decides.
FeatureSubwordRefSets == {[l \in HybridLangs |-> <<1>>]}

InitFeaturesSimple ==
    /\ model = "simple"
    /\ n_gram_size = 2
    /\ profile_size \in FeatureProfileSizes
    /\ alpha = 0
    /\ profiles \in CharRefSets(FeatureRefProfiles, HybridLangs)
    /\ char_profiles = <<>>
    /\ subword_profiles = <<>>

\* The hybrid identifier as api.py constructs it at startup: alpha = 0.5.
InitFeaturesHybrid ==
    /\ model = "advanced"
    /\ n_gram_size = 2
    /\ profile_size \in FeatureProfileSizes
    /\ alpha = AlphaDen \div 2
    /\ profiles = <<>>
    /\ char_profiles \in CharRefSets(FeatureRefProfiles, HybridLangs)
    /\ subword_profiles \in FeatureSubwordRefSets

InitFeatures ==
    /\ InitFeaturesSimple \/ InitFeaturesHybrid
    /\ call = NoCall
    /\ result = NoResult

\* identify(text): top_n is left at its default, as api.py and main.py do.
IdentifyLong ==
    /\ model = "simple"
    /\ call.op = "none"
    /\ \E text \in FeatureTexts :
        /\ call' = [op |-> "identify", text |-> text, top_n |-> 3]
        /\ result' = [kind |-> "result", value |-> identify(text, 3)]
    /\ UNCHANGED config

HybridIdentifyLong ==
    /\ model = "advanced"
    /\ call.op = "none"
    /\ \E text \in FeatureTexts, token_ids \in FeatureTokenSeqs :
        /\ call' = [op |-> "identify", text |-> text, token_ids |-> token_ids,
                    top_n |-> 3]
        /\ result' = [kind |-> "result",
                      value |-> hybrid_identify(alpha, text, token_ids, 3)]
    /\ UNCHANGED config

NextFeatures == IdentifyLong \/ HybridIdentifyLong \/ Return

SpecFeatures == InitFeatures /\ [][NextFeatures]_vars

----------------------------------------------------------------------------
(* api.py: the two identifiers are constructed once, at startup, from the   *)
(* same directory, and every request to /identify is served by a thread of  *)
(* its own. Here call and result hold one entry per request in flight.      *)

MaxRequests == 2    \* most requests in flight at once

Requests == 1..MaxRequests

DefaultAlpha == AlphaDen \div 2     \* alpha: float = 0.5

ApiTexts == {<<"a">>, <<"B", "a">>}
ApiTokenSeqs == {<<1>>}
RequestModels == {"simple", "advanced"}

Idle == [pc |-> "idle"]

\* simple_model = LanguageIdentifier(PROFILES_PATH) and
\* advanced_model = HybridIdentifier(PROFILES_PATH): both load the same
\* *_chars.json files, the hybrid one with alpha at its default.
InitApi ==
    /\ model = "api"
    /\ n_gram_size = 1
    /\ profile_size \in ProfileSizes
    /\ alpha = DefaultAlpha
    /\ char_profiles \in {d \in CharRefSets(HybridCharRefProfiles, HybridLangs) :
                             Len(d) = Cardinality(HybridLangs)}
    /\ profiles = char_profiles
    /\ subword_profiles \in [HybridLangs -> SubwordRefProfiles]
    /\ call = [r \in Requests |-> Idle]
    /\ result = [r \in Requests |-> NoResult]

\* A selection that sets the requested alpha on the shared advanced_model
\* instead of constructing an identifier for the request.
ModelInstanceShared(request_model, request_alpha) ==
    IF request_model = "advanced"
    THEN [is |-> "advanced_model", alpha |-> request_alpha,
          advanced_model_alpha |-> request_alpha]
    ELSE [is |-> "simple_model", alpha |-> 0, advanced_model_alpha |-> alpha]

\* The model_instance identify_language selects: the shared simple_model,
\* the shared advanced_model, or a HybridIdentifier constructed for this
\* request with the requested alpha. advanced_model_alpha is what the
\* selection leaves in advanced_model.alpha: nothing assigns it.
ModelInstance(request_model, request_alpha) ==
    IF request_model = "advanced"
    THEN IF request_alpha # DefaultAlpha
         THEN [is |-> "new", alpha |-> request_alpha, advanced_model_alpha |-> alpha]
         ELSE [is |-> "advanced_model", alpha |-> request_alpha,
               advanced_model_alpha |-> alpha]
    ELSE [is |-> "simple_model", alpha |-> 0, advanced_model_alpha |-> alpha]

\* A request arrives and identify_language selects its model_instance. A
\* request for the simple model carries the default alpha, which is unused,
\* and its text is never given to the tokenizer.
Request(r) ==
    /\ call[r].pc = "idle"
    /\ \E text \in ApiTexts, request_model \in RequestModels, request_alpha \in Alphas,
          token_ids \in ApiTokenSeqs \cup {<<>>} :
        /\ request_model = "simple" => (request_alpha = DefaultAlpha /\ token_ids = <<>>)
        /\ request_model = "advanced" => token_ids \in ApiTokenSeqs
        /\ LET model_instance == ModelInstance(request_model, request_alpha)
           IN  /\ call' = [call EXCEPT ![r] =
                              [pc |-> "selected", text |-> text, token_ids |-> token_ids,
                               model |-> request_model, alpha |-> request_alpha,
                               instance |-> model_instance.is,
                               instance_alpha |-> model_instance.alpha]]
               /\ alpha' = model_instance.advanced_model_alpha
    /\ UNCHANGED <<model, n_gram_size, profile_size, profiles, char_profiles,
                   subword_profiles, result>>

\* self.alpha of the instance the request runs on. An identifier
\* constructed for the request has loaded the same directory, so its
\* profiles are those of advanced_model.
AlphaOfInstance(r) ==
    IF call[r].instance = "advanced_model" THEN alpha ELSE call[r].instance_alpha

\* return model_instance.identify(request.text), top_n at its default.
Run(r) ==
    /\ call[r].pc = "selected"
    /\ result' = [result EXCEPT ![r] =
                    [kind |-> "result",
                     value |-> IF call[r].instance = "simple_model"
                               THEN identify(call[r].text, 3)
                               ELSE hybrid_identify(AlphaOfInstance(r), call[r].text,
                                                    call[r].token_ids, 3)]]
    /\ call' = [call EXCEPT ![r].pc = "done"]
    /\ UNCHANGED config

\* The response is sent; the thread serves the next request.
Respond(r) ==
    /\ call[r].pc = "done"
    /\ call' = [call EXCEPT ![r] = Idle]
    /\ result' = [result EXCEPT ![r] = NoResult]
    /\ UNCHANGED config

NextApi == \E r \in Requests : Request(r) \/ Run(r) \/ Respond(r)

SpecApi == InitApi /\ [][NextApi]_vars

----------------------------------------------------------------------------
(* Claims about identify (Spec).                                            *)

Succeeded == result.kind = "result" /\ "prediction" \in DOMAIN result.value

Failed == result.kind = "result" /\ "error" \in DOMAIN result.value

\* The languages of a distribution, in its order.
LangsOf(distribution) == [i \in 1..Len(distribution) |-> distribution[i].lang]

\* C1: for a text with a non-empty character profile and a non-empty
\* reference set, the prediction of LanguageIdentifier.identify is a language
\* of the set whose distance to the text profile no language undercuts, and
\* for top_n >= 1 it is the language of the first distribution entry.
C1_PredictionHasMinimalDistance ==
    (/\ model = "simple"
     /\ result.kind = "result"
     /\ profiles # <<>>
     /\ TextProfile(call.text) # <<>>)
    => /\ Succeeded
       /\ HasKey(profiles, result.value.prediction)
       /\ LET text_profile == TextProfile(call.text)
              predicted == _calculate_distance(
                               text_profile, Lookup(profiles, result.value.prediction))
          IN  \A i \in 1..Len(profiles) :
                  predicted <= _calculate_distance(text_profile, profiles[i].profile)
       /\ call.top_n >= 1 =>
              /\ result.value.distribution # <<>>
              /\ result.value.distribution[1].lang = result.value.prediction

\* C1 witness: three languages of three different distances, the nearest of
\* them loaded last, and it is predicted.
C1_Witness ==
    /\ model = "simple"
    /\ Succeeded
    /\ Len(profiles) = 3
    /\ call.top_n >= 1
    /\ result.value.prediction = profiles[3].lang
    /\ \A i, j \in 1..3 :
           i # j => _calculate_distance(TextProfile(call.text), profiles[i].profile)
                      # _calculate_distance(TextProfile(call.text), profiles[j].profile)

\* The ranking HybridIdentifier.identify reports: the prediction and the
\* languages of the distribution.
Ranking(value) == <<value.prediction, LangsOf(value.distribution)>>

\* The scorable languages with their subword distances alone.
SubwordScores(token_ids) ==
    LET both == Scorable
        text_subword_profile == generate_subword_profile(token_ids, profile_size)
    IN  [i \in 1..Len(both) |->
            [lang |-> both[i].lang,
             score |-> _calculate_distance(text_subword_profile,
                                           subword_profiles[both[i].lang])]]

\* With alpha = 0 the hybrid ranking is the ranking by subword distance.
RanksBySubwordAtZero ==
    (model = "advanced" /\ Succeeded /\ alpha = 0)
    => LET sorted == SortedScores(SubwordScores(call.token_ids))
       IN  Ranking(result.value)
             = <<sorted[1].lang, LangsOf(Slice(sorted, call.top_n))>>

\* C8 as stated: with alpha = 1.0 the hybrid ranking is the ranking of pure
\* character-only scoring of the text against the character reference set,
\* and with alpha = 0.0 it is the ranking by subword distance.
C8_Original_HybridRanksAsCharSet ==
    /\ (model = "advanced" /\ Succeeded /\ alpha = AlphaDen)
       => LET simple == IdentifyAgainst(char_profiles, call.text, call.top_n)
          IN  /\ "prediction" \in DOMAIN simple
              /\ Ranking(result.value) = Ranking(simple)
    /\ RanksBySubwordAtZero

\* C8 amended: with alpha = 1.0 the hybrid ranking is the ranking of pure
\* character-only scoring against the character profiles of the languages
\* that have a subword profile too, and with alpha = 0.0 it is the ranking
\* by subword distance.
C8_HybridRanksAsScorableCharSet ==
    /\ (model = "advanced" /\ Succeeded /\ alpha = AlphaDen)
       => LET simple == IdentifyAgainst(Scorable, call.text, call.top_n)
          IN  /\ "prediction" \in DOMAIN simple
              /\ Ranking(result.value) = Ranking(simple)
    /\ RanksBySubwordAtZero

\* C8 witness: alpha = 1.0, two scorable languages, the one nearer by
\* characters is the farther by subwords, and it is ranked first.
C8_Witness ==
    /\ model = "advanced"
    /\ Succeeded
    /\ alpha = AlphaDen
    /\ Len(Scorable) = 2
    /\ Len(result.value.distribution) = 2
    /\ LET first == result.value.distribution[1].lang
           second == result.value.distribution[2].lang
           sub(l) == _calculate_distance(
                         generate_subword_profile(call.token_ids, profile_size),
                         subword_profiles[l])
           chr(l) == _calculate_distance(TextProfile(call.text),
                                         Lookup(char_profiles, l))
       IN  chr(first) < chr(second) /\ sub(first) > sub(second)

\* C8 witness of the other half: alpha = 0.0, and the language ranked first
\* is the nearer by subwords and the farther by characters.
C8_WitnessZero ==
    /\ model = "advanced"
    /\ Succeeded
    /\ alpha = 0
    /\ Len(result.value.distribution) = 2
    /\ LET first == result.value.distribution[1].lang
           second == result.value.distribution[2].lang
           sub(l) == _calculate_distance(
                         generate_subword_profile(call.token_ids, profile_size),
                         subword_profiles[l])
           chr(l) == _calculate_distance(TextProfile(call.text),
                                         Lookup(char_profiles, l))
       IN  chr(first) > chr(second) /\ sub(first) < sub(second)

\* The number of languages identify scores.
ScorableCount == IF model = "simple" THEN Len(profiles) ELSE Len(Scorable)

SortedAscending(distribution) ==
    \A i, j \in 1..Len(distribution) :
        i < j => distribution[i].score <= distribution[j].score

\* C9 as stated: for any top_n, the distribution of a successful identify
\* (simple or hybrid) is sorted ascending by score and has length
\* min(top_n, number of scorable languages).
C9_Original_DistributionLength ==
    Succeeded =>
        /\ SortedAscending(result.value.distribution)
        /\ Len(result.value.distribution) = Min(call.top_n, ScorableCount)

\* C9 amended: for any top_n >= 0, the distribution of a successful identify
\* (simple or hybrid) is sorted ascending by score and has length
\* min(top_n, number of scorable languages).
C9_DistributionSortedAndCut ==
    (Succeeded /\ call.top_n >= 0) =>
        /\ SortedAscending(result.value.distribution)
        /\ Len(result.value.distribution) = Min(call.top_n, ScorableCount)

\* C9 witness: three languages were scored, not in the order of their
\* scores, and the distribution was cut to two entries of different scores.
C9_Witness ==
    /\ model = "simple"
    /\ Succeeded
    /\ Len(profiles) = 3
    /\ call.top_n = 2
    /\ Len(result.value.distribution) = 2
    /\ result.value.distribution[1].score < result.value.distribution[2].score
    /\ result.value.distribution[1].lang # profiles[1].lang

\* C9 witness for the hybrid identifier: two languages were scored and the
\* distribution was cut to one.
C9_WitnessHybrid ==
    /\ model = "advanced"
    /\ Succeeded
    /\ Len(Scorable) = 2
    /\ call.top_n = 1
    /\ Len(result.value.distribution) = 1

\* The input has letters, but too few for one n-gram.
TooFewLetters(text) ==
    normalize_text(text) # <<>> /\ Len(normalize_text(text)) < n_gram_size

\* The input is not empty and normalisation leaves nothing of it.
StrippedToNothing(text) == text # <<>> /\ normalize_text(text) = <<>>

\* C10: the error message identify returns for an input of too few letters
\* differs from the one it returns for an input that normalisation strips
\* to nothing.
C10_ShortAndStrippedMessagesDiffer ==
    (/\ model = "simple"
     /\ profiles # <<>>
     /\ Failed
     /\ TooFewLetters(call.text))
    => \A other \in Texts :
           StrippedToNothing(other)
           => identify(other, call.top_n).error # result.value.error

----------------------------------------------------------------------------
(* Claims about _calculate_distance (SpecDist).                             *)

\* C2: the distance of a non-empty profile to itself, used both as the text
\* profile and as the reference profile, is 0.
C2_DistanceToSelfIsZero ==
    (/\ result.kind = "distance"
     /\ call.text_profile # <<>>
     /\ call.text_profile = call.lang_profile)
    => result.value = 0

\* C2 witness: the distance of a profile of several symbols to itself was computed.
C2_Witness ==
    /\ result.kind = "distance"
    /\ Len(call.text_profile) >= 3
    /\ call.text_profile = call.lang_profile
    /\ result.value = 0

\* C3: for all text and reference profiles, reference profiles longer than
\* profile_size included, 0 <= distance <= len(text_profile) * profile_size.
C3_DistanceWithinPenaltyBound ==
    result.kind = "distance"
    => /\ 0 <= result.value
       /\ result.value <= Len(call.text_profile) * profile_size

----------------------------------------------------------------------------
(* Claims about generate_char_ngram_profile (SpecProfile).                  *)

\* The number of times gram g occurs in the scan of the text.
CountIn(grams, g) == Cardinality({i \in 1..Len(grams) : grams[i] = g})

\* The position of the first occurrence of g in the scan.
FirstIn(grams, g) ==
    CHOOSE i \in 1..Len(grams) :
        grams[i] = g /\ \A j \in 1..Len(grams) : grams[j] = g => i <= j

\* g comes before h in the order of the claim: more frequent first, and of
\* two equally frequent grams the one seen first.
Before(grams, g, h) ==
    \/ CountIn(grams, g) > CountIn(grams, h)
    \/ /\ CountIn(grams, g) = CountIn(grams, h)
       /\ FirstIn(grams, g) < FirstIn(grams, h)

\* C4: the profile holds the min(profile_size, distinct n-grams) most frequent
\* length-n substrings of the text, by descending count and, among equal
\* counts, by first occurrence in the scan.
C4_ProfileIsTopKByCountThenFirstSeen ==
    result.kind = "profile" =>
        LET grams == NGrams(call.text, call.n)
            p == result.value
        IN  /\ Range(p) \subseteq Range(grams)
            /\ \A i \in 1..Len(p) : Len(p[i]) = call.n
            /\ Len(p) = Min(call.size, Cardinality(Range(grams)))
            /\ \A i, j \in 1..Len(p) : i < j => Before(grams, p[i], p[j])
            /\ \A g \in Range(grams) \ Range(p) :
                   \A i \in 1..Len(p) : Before(grams, p[i], g)

\* C4 witness: a profile of 2-grams that was cut to profile_size, whose first
\* n-gram is not the first of the text, and that left out an n-gram as
\* frequent as its last one.
C4_Witness ==
    /\ result.kind = "profile"
    /\ call.n = 2
    /\ Len(result.value) = call.size
    /\ Len(result.value) >= 2
    /\ result.value[1] # NGrams(call.text, call.n)[1]
    /\ \E g \in Range(NGrams(call.text, call.n)) \ Range(result.value) :
           CountIn(NGrams(call.text, call.n), g)
             = CountIn(NGrams(call.text, call.n), result.value[Len(result.value)])

\* C5: for n >= 1 and profile_size >= 1 the profile is empty exactly when
\* the text is shorter than n.
C5_EmptyIffShorterThanN ==
    result.kind = "profile" => (result.value = <<>> <=> Len(call.text) < call.n)

\* C5 witness: a text of exactly n characters, n > 1, gave a non-empty profile.
C5_Witness ==
    /\ result.kind = "profile"
    /\ call.n > 1
    /\ Len(call.text) = call.n
    /\ result.value # <<>>

\* C5 witness of the other case: a non-empty text shorter than n gave the
\* empty profile.
C5_WitnessShort ==
    /\ result.kind = "profile"
    /\ call.text # <<>>
    /\ Len(call.text) < call.n
    /\ result.value = <<>>

----------------------------------------------------------------------------
(* Claims about normalize_text (SpecNorm).                                  *)

\* C6: normalize_text is idempotent: normalising its output gives the output.
C6_NormalizeIdempotent ==
    result.kind = "text2" => result.value = result.first

\* C6 witness: a text that normalisation changed, to something non-empty,
\* was normalised twice.
C6_Witness ==
    /\ result.kind = "text2"
    /\ result.first # call.text
    /\ result.first # <<>>
    /\ result.value = result.first

\* C7: the output of normalize_text holds only a-z and the space, has no
\* leading or trailing space and no two consecutive spaces; the empty input
\* gives the empty output.
C7_NormalizedShape ==
    result.kind = "text" =>
        LET out == result.value
        IN  /\ \A i \in 1..Len(out) : out[i] \in LowerLetters \cup {" "}
            /\ out # <<>> => (out[1] # " " /\ out[Len(out)] # " ")
            /\ \A i \in 1..(Len(out) - 1) : ~(out[i] = " " /\ out[i + 1] = " ")
            /\ call.text = <<>> => out = <<>>

\* C7 witness: an input with an uppercase letter and, between two letters,
\* a run of two different whitespace characters one of which is a tab or a
\* newline, gave an output with a single space between the letters.
C7_Witness ==
    /\ result.kind = "text"
    /\ \E i \in 1..Len(call.text) : call.text[i] \in UpperLetters
    /\ \E i \in 2..(Len(call.text) - 2) :
           /\ call.text[i - 1] \in LowerLetters \cup UpperLetters
           /\ call.text[i] \in Whitespace
           /\ call.text[i + 1] \in Whitespace
           /\ call.text[i] # call.text[i + 1]
           /\ \E k \in {i, i + 1} : call.text[k] \in {"\t", "\n"}
           /\ call.text[i + 2] \in LowerLetters \cup UpperLetters
    /\ Len(result.value) = 3
    /\ result.value[2] = " "

\* C7 witness of spaces that a removal brings together: two letters with
\* space, digit or punctuation mark, space between them gave the two letters
\* with a single space between them.
C7_WitnessJoined ==
    /\ result.kind = "text"
    /\ Len(call.text) = 5
    /\ call.text[1] \in LowerLetters
    /\ call.text[2] = " "
    /\ call.text[3] \in OtherChars
    /\ call.text[4] = " "
    /\ call.text[5] \in LowerLetters
    /\ result.value = <<call.text[1], " ", call.text[5]>>

\* C7 witness of the removal: an input of digits and punctuation only gave
\* the empty output.
C7_WitnessStripped ==
    /\ result.kind = "text"
    /\ call.text # <<>>
    /\ \A i \in 1..Len(call.text) : call.text[i] \in OtherChars
    /\ result.value = <<>>

----------------------------------------------------------------------------
(* Claims about the outcomes of identify (Spec).                            *)

ErrorShape == {"error"}

SuccessShape == {"prediction", "distribution", "top_features"}

\* C11: LanguageIdentifier.identify returns a result for every text and
\* every loaded reference set: one that carries an error and no prediction
\* exactly when the reference set is empty or the text's character profile
\* is empty, and otherwise one that carries a prediction, a distribution and
\* top_features and no error.
C11_SimpleErrorIffNothingToScore ==
    (model = "simple" /\ call.op = "identify")
    => /\ result.kind = "result"
       /\ IF profiles = <<>> \/ TextProfile(call.text) = <<>>
          THEN DOMAIN result.value = ErrorShape
          ELSE DOMAIN result.value = SuccessShape

\* C11 witness: an identifier that loaded no profile was given a text with a
\* non-empty character profile and returned an error.
C11_Witness ==
    /\ model = "simple"
    /\ call.op = "identify"
    /\ profiles = <<>>
    /\ TextProfile(call.text) # <<>>
    /\ DOMAIN result.value = ErrorShape

\* C11 witness of the second cause: profiles are loaded, the text has
\* letters but too few for an n-gram, and the result is an error.
C11_WitnessShortText ==
    /\ model = "simple"
    /\ call.op = "identify"
    /\ profiles # <<>>
    /\ normalize_text(call.text) # <<>>
    /\ TextProfile(call.text) = <<>>
    /\ DOMAIN result.value = ErrorShape

\* C11 witness of the success: profiles are loaded, the text has a profile,
\* and the result carries a prediction and no error.
C11_WitnessSuccess ==
    /\ model = "simple"
    /\ call.op = "identify"
    /\ profiles # <<>>
    /\ TextProfile(call.text) # <<>>
    /\ DOMAIN result.value = SuccessShape

\* The text gives the hybrid identifier too little: its character profile
\* or its subword profile is empty.
InsufficientInput ==
    \/ TextProfile(call.text) = <<>>
    \/ generate_subword_profile(call.token_ids, profile_size) = <<>>

\* No language has both a character and a subword reference profile.
NoScorableLanguages ==
    ~ \E i \in 1..Len(char_profiles) : char_profiles[i].lang \in DOMAIN subword_profiles

\* C12: HybridIdentifier.identify returns an error and no prediction exactly
\* when the text's character profile is empty, or its subword profile is
\* empty, or no language has both reference profiles, and a prediction in
\* every other case; when the text profile is empty and no language has
\* both profiles, the error is the one of the insufficient input.
C12_HybridErrorIffNothingToScore ==
    (model = "advanced" /\ call.op = "identify")
    => LET insufficient == InsufficientInput
           none == NoScorableLanguages
       IN  /\ result.kind = "result"
           /\ IF insufficient \/ none
              THEN DOMAIN result.value = ErrorShape
              ELSE DOMAIN result.value = SuccessShape
           /\ (insufficient /\ none)
              => result.value.error = "Text too short to generate a reliable profile."

\* C12 witness: the text has no character profile, no language has both
\* reference profiles although both kinds are loaded, and the error
\* reported is the one of the insufficient input.
C12_Witness ==
    /\ model = "advanced"
    /\ call.op = "identify"
    /\ char_profiles # <<>>
    /\ DOMAIN subword_profiles # {}
    /\ NoScorableLanguages
    /\ TextProfile(call.text) = <<>>
    /\ call.token_ids # <<>>
    /\ result.value = [error |-> "Text too short to generate a reliable profile."]

\* C12 witness of the empty intersection alone: both text profiles are
\* non-empty, both kinds of reference profile are loaded, for different
\* languages, and the error is the one of the unscored text.
C12_WitnessNoScorable ==
    /\ model = "advanced"
    /\ call.op = "identify"
    /\ ~InsufficientInput
    /\ char_profiles # <<>>
    /\ DOMAIN subword_profiles # {}
    /\ NoScorableLanguages
    /\ result.value =
         [error |-> "Could not score text against any language. Check profiles."]

\* C12 witness of the empty subword profile alone: the text has a character
\* profile and a language has both reference profiles.
C12_WitnessNoTokens ==
    /\ model = "advanced"
    /\ call.op = "identify"
    /\ TextProfile(call.text) # <<>>
    /\ call.token_ids = <<>>
    /\ ~NoScorableLanguages
    /\ DOMAIN result.value = ErrorShape

\* C12 witness of the success.
C12_WitnessSuccess ==
    /\ model = "advanced"
    /\ call.op = "identify"
    /\ ~InsufficientInput
    /\ ~NoScorableLanguages
    /\ DOMAIN result.value = SuccessShape

----------------------------------------------------------------------------
(* Claims about ties (Spec).                                                *)

\* The language codes in lexical order.
LangCodeOrder == <<"de", "en", "fr">>

LexRank(lang) == CHOOSE i \in 1..Len(LangCodeOrder) : LangCodeOrder[i] = lang

\* The scores identify sorts: one per scored language, in the order of
\* loading.
ScoresOfCall ==
    IF model = "simple"
    THEN Scores(profiles, TextProfile(call.text))
    ELSE FinalScores(alpha, TextProfile(call.text),
                     generate_subword_profile(call.token_ids, profile_size))

ScoreOf(scores, lang) ==
    scores[CHOOSE i \in 1..Len(scores) : scores[i].lang = lang].score

\* The languages whose score no language undercuts.
MinimumScoreLangs(scores) ==
    {scores[i].lang : i \in {i \in 1..Len(scores) :
                                \A j \in 1..Len(scores) : scores[i].score <= scores[j].score}}

\* C13: languages of equal score are ordered in the result of identify
\* (simple and hybrid) by the lexical order of their codes, so the
\* prediction is the lexically smallest of the languages of minimum score,
\* in whatever order the reference profiles were loaded.
C13_TiesBrokenByLanguageCode ==
    Succeeded =>
        LET scores == ScoresOfCall
            d == result.value.distribution
        IN  /\ result.value.prediction \in MinimumScoreLangs(scores)
            /\ \A l \in MinimumScoreLangs(scores) :
                   LexRank(result.value.prediction) <= LexRank(l)
            /\ \A i, j \in 1..Len(d) :
                   (i < j /\ ScoreOf(scores, d[i].lang) = ScoreOf(scores, d[j].lang))
                   => LexRank(d[i].lang) < LexRank(d[j].lang)

\* What the code does with languages of equal score: they keep the order in
\* which their profiles were loaded.
TiesKeepLoadOrder ==
    Succeeded =>
        LET scores == ScoresOfCall
            d == result.value.distribution
            Pos(lang) == CHOOSE i \in 1..Len(scores) : scores[i].lang = lang
        IN  /\ result.value.prediction \in MinimumScoreLangs(scores)
            /\ \A l \in MinimumScoreLangs(scores) : Pos(result.value.prediction) <= Pos(l)
            /\ \A i, j \in 1..Len(d) :
                   (i < j /\ ScoreOf(scores, d[i].lang) = ScoreOf(scores, d[j].lang))
                   => Pos(d[i].lang) < Pos(d[j].lang)

----------------------------------------------------------------------------
(* Claims about top_features (SpecFeatures).                                *)

\* The character reference set of the identifier at work.
CharRefs == IF model = "simple" THEN profiles ELSE char_profiles

\* The 0-based position of symbol g in profile p, which holds it once.
PositionIn(p, g) == (CHOOSE i \in 1..Len(p) : p[i] = g) - 1

\* C14: in every successful identify result (simple and hybrid),
\* top_features holds at most 5 symbols, each one both in the text's
\* character profile and in the character reference profile of the
\* predicted language, listed in ascending order of their rank in that
\* reference profile, and they are the 5 best-ranked shared symbols.
C14_TopFeaturesAreBestRankedShared ==
    Succeeded =>
        LET tp == TextProfile(call.text)
            ref == Lookup(CharRefs, result.value.prediction)
            tf == result.value.top_features
            shared == Range(tp) \cap Range(ref)
        IN  /\ Len(tf) <= 5
            /\ Len(tf) = Min(5, Cardinality(shared))
            /\ Range(tf) \subseteq shared
            /\ \A i, j \in 1..Len(tf) :
                   i < j => PositionIn(ref, tf[i]) < PositionIn(ref, tf[j])
            /\ \A g \in shared \ Range(tf) :
                   \A i \in 1..Len(tf) : PositionIn(ref, tf[i]) < PositionIn(ref, g)

\* C14 witness: the text shares six symbols with the reference profile of
\* the predicted language, its profile lists them in another order than
\* the reference profile, and top_features holds five of them.
C14_Witness ==
    /\ model = "simple"
    /\ Succeeded
    /\ LET tp == TextProfile(call.text)
           ref == Lookup(CharRefs, result.value.prediction)
       IN  /\ Cardinality(Range(tp) \cap Range(ref)) > 5
           /\ Len(result.value.top_features) = 5
           /\ result.value.top_features # SubSeq(tp, 1, 5)
           /\ tp[Len(tp)] \in Range(result.value.top_features)

\* C14 witness for the hybrid identifier.
C14_WitnessHybrid ==
    /\ model = "advanced"
    /\ Succeeded
    /\ LET tp == TextProfile(call.text)
           ref == Lookup(CharRefs, result.value.prediction)
       IN  /\ Cardinality(Range(tp) \cap Range(ref)) > 5
           /\ Len(result.value.top_features) = 5
           /\ result.value.top_features # SubSeq(tp, 1, 5)

----------------------------------------------------------------------------
(* Claims about the languages the hybrid identifier scores (Spec).          *)

\* The languages with a character and a subword reference profile.
LangsWithBoth ==
    {char_profiles[i].lang : i \in 1..Len(char_profiles)} \cap DOMAIN subword_profiles

\* The languages with only one of the two.
LangsWithOne ==
    ({char_profiles[i].lang : i \in 1..Len(char_profiles)} \cup DOMAIN subword_profiles)
        \ LangsWithBoth

\* alpha * charDistance + (1 - alpha) * subwordDistance for language lang
\* and the two profiles of the text, in hundredths.
BlendedHundredths(text_char_profile, text_subword_profile, lang) ==
    LET charDistance ==
            _calculate_distance(text_char_profile, Lookup(char_profiles, lang))
        subwordDistance ==
            _calculate_distance(text_subword_profile, subword_profiles[lang])
    IN  ((alpha * charDistance + (AlphaDen - alpha) * subwordDistance) * 100) \div AlphaDen

\* C15: HybridIdentifier.identify scores exactly the languages that have
\* both a character and a subword reference profile: a language with only
\* one of them is neither predicted nor in the distribution and causes no
\* error, and a language with both has the score
\* alpha * charDistance + (1 - alpha) * subwordDistance.
C15_HybridScoresLanguagesWithBoth ==
    (model = "advanced" /\ call.op = "identify")
    => LET tp == TextProfile(call.text)
           sp == generate_subword_profile(call.token_ids, profile_size)
           d == result.value.distribution
       IN  /\ (tp # <<>> /\ sp # <<>> /\ LangsWithBoth # {}) => Succeeded
           /\ Succeeded =>
                /\ result.value.prediction \in LangsWithBoth
                /\ \A i \in 1..Len(d) :
                       /\ d[i].lang \in LangsWithBoth
                       /\ d[i].score = BlendedHundredths(tp, sp, d[i].lang)
                /\ call.top_n >= Cardinality(LangsWithBoth)
                   => {d[i].lang : i \in 1..Len(d)} = LangsWithBoth

\* C15 witness: a language has a character profile only, nearer to the
\* text than the character profile of the language that has both, and the
\* language with both is the only one scored; alpha weighs both distances.
C15_Witness ==
    /\ model = "advanced"
    /\ Succeeded
    /\ alpha = AlphaDen \div 2
    /\ call.top_n = 2
    /\ Len(char_profiles) = 2
    /\ Cardinality(LangsWithBoth) = 1
    /\ Len(result.value.distribution) = 1
    /\ result.value.distribution[1].score > 0
    /\ \E i \in 1..2 :
           /\ char_profiles[i].lang \in LangsWithOne
           /\ _calculate_distance(TextProfile(call.text), char_profiles[i].profile) = 0

\* C15 witness of a language with a subword profile only.
C15_WitnessSubwordOnly ==
    /\ model = "advanced"
    /\ Succeeded
    /\ Len(char_profiles) = 1
    /\ Cardinality(DOMAIN subword_profiles) = 2
    /\ Len(result.value.distribution) = 1

----------------------------------------------------------------------------
(* Claims about the shape of the distance (SpecDist).                       *)

\* Profiles p and q that are not at the same distance from each other in
\* the two directions.
Asymmetric(p, q) == _calculate_distance(p, q) # _calculate_distance(q, p)

\* C16: the distance depends only on the symbols of the text profile:
\* appending to the reference profile r a symbol s that the text profile t
\* does not hold leaves the distance of t to r unchanged; and the distance
\* is not symmetric: there are profiles p, q with distance(p, q) different
\* from distance(q, p).
C16_AbsentSymbolAddsNothingAndNotSymmetric ==
    /\ result.kind = "distance2" => result.value = result.first
    /\ \E p, q \in DistProfiles :
           /\ Len(p) <= profile_size
           /\ Len(q) <= profile_size
           /\ Asymmetric(p, q)

\* C16 witness: a symbol absent from the text profile was appended to a
\* reference profile that shares a displaced symbol with the text profile
\* and lacks another, and the two profiles are at different distances in
\* the two directions.
C16_Witness ==
    /\ result.kind = "distance2"
    /\ result.value = result.first
    /\ result.first > profile_size
    /\ ~InRanks(call.lang_profile, result.symbol)
    /\ \E i \in 1..Len(call.text_profile) :
           /\ InRanks(call.lang_profile, call.text_profile[i])
           /\ RankOf(call.lang_profile, call.text_profile[i]) # i - 1
    /\ \E i \in 1..Len(call.text_profile) :
           ~InRanks(call.lang_profile, call.text_profile[i])
    /\ Len(call.lang_profile) <= profile_size
    /\ Asymmetric(call.text_profile, call.lang_profile)

----------------------------------------------------------------------------
(* Claims about concurrent requests (SpecApi).                              *)

\* What the request returns when it is the only one the server ever gets.
ResultAlone(r) ==
    IF call[r].model = "simple"
    THEN identify(call[r].text, 3)
    ELSE hybrid_identify(call[r].alpha, call[r].text, call[r].token_ids, 3)

EachResultIsResultAlone ==
    \A r \in Requests : call[r].pc = "done" => result[r].value = ResultAlone(r)

\* C17: no identify call, simple or hybrid or through the API with a custom
\* alpha, changes the loaded reference profiles or the shared model
\* instances: in every interleaving of concurrent calls the reference
\* profiles and the alpha of the shared model stay as they are, and every
\* call returns what it returns when run alone on the same text.
C17_CallsLeaveSharedModelsAlone ==
    /\ [][config' = config]_vars
    /\ [](alpha = DefaultAlpha /\ EachResultIsResultAlone)

\* C17 witness: two requests for the advanced model on the same text are
\* answered and not yet sent, one with a custom alpha and one with the
\* default one, and their distributions differ.
C17_Witness ==
    /\ model = "api"
    /\ call[1].pc = "done"
    /\ call[2].pc = "done"
    /\ call[1].model = "advanced"
    /\ call[2].model = "advanced"
    /\ call[1].text = call[2].text
    /\ call[1].token_ids = call[2].token_ids
    /\ call[1].alpha # DefaultAlpha
    /\ call[2].alpha = DefaultAlpha
    /\ "prediction" \in DOMAIN result[1].value
    /\ "prediction" \in DOMAIN result[2].value
    /\ result[1].value.distribution # result[2].value.distribution
    /\ alpha = DefaultAlpha

====
